---- MODULE Spec2Model ----
(***************************************************************************)
(* BAMPLToken: the elastic-supply ("gons") ledger and its built-in         *)
(* monetary policy (oracle price, epoch gate, rebase).                     *)
(*                                                                         *)
(* The contract computes over u256.  TLC's integers are 32 bit, so the     *)
(* word and the magnitudes are scaled down; the relations the code relies  *)
(* on are kept:                                                            *)
(*   - U256Max is the largest word; SafeMath reverts beyond it;            *)
(*   - TOTAL_GONS is an exact multiple of INITIAL_SUPPLY and               *)
(*     2 * TOTAL_GONS <= U256Max < 3 * TOTAL_GONS;                        *)
(*   - MIN_SUPPLY < INITIAL_SUPPLY < MAX_SUPPLY, MAX_SUPPLY is 2^k - 1 for *)
(*     about half the word's bits, and MAX_SUPPLY^2 > TOTAL_GONS;          *)
(*   - the rates are the same fractions of PRECISION (5%, 5%, 7.7%).       *)
(* The supply bounds lie one or two rebases from the initial supply, so    *)
(* that both clamps are reached within the block bound.                    *)
(***************************************************************************)
EXTENDS Integers, FiniteSets, TLC

\* ------------------------------------------------------------------
\*  Compile-time constants (scaled)
\* ------------------------------------------------------------------
U256Max == 1073741823
INITIAL_SUPPLY == 32000
TOTAL_GONS == 448000000
MAX_SUPPLY == 32767
MIN_SUPPLY == 30000
PRECISION == 1000

\* Genesis defaults written by onDeployment
GENESIS_EPOCH_LENGTH == 144
GENESIS_REBASE_LAG == 10
GENESIS_DEVIATION_THRESHOLD == 50
GENESIS_MAX_EXPANSION_RATE == 50
GENESIS_MAX_CONTRACTION_RATE == 77

\* ------------------------------------------------------------------
\*  Bounds of the model
\* ------------------------------------------------------------------
\* Blocks run from the deployment block 0 to MaxBlock (policy runs) or to
\* MaxBlockLedger (runs that also move tokens).
MaxBlock == 3
MaxBlockLedger == 2
\* Allowances stay within MaxAllowance of 0 or of the sentinel U256Max.
MaxAllowance == 10000
\* Small-amount runs: blocks run to MaxBlockDust, the accounts other than the
\* deployer hold at most MaxDustFragments fragments, and allowances stay
\* within MaxDustAllowance of 0 or of the sentinel.
MaxBlockDust == 2
MaxDustFragments == 2
MaxDustAllowance == 2

\* ------------------------------------------------------------------
\*  Inputs
\* ------------------------------------------------------------------
Deployer == "deployer"
Accounts == {"deployer", "alice", "bob"}

\* Policy runs: the calls' arguments
Prices == {0, 500, 1050, 1200, U256Max}
TargetPrices == {0, 2000, U256Max}
EpochLengths == {0, 2, U256Max}
RebaseLags == {0, 1}
DeviationThresholds == {0, 200}

\* Ledger runs: the calls' arguments
Owners == {"deployer"}
Spenders == {"alice"}
Recipients == {"alice", "bob"}
TransferAmounts == {0, 16000, U256Max}
AllowanceAmounts == {10000, U256Max}
LedgerPrices == {0, 500, 1200}
LedgerTargetPrices == {0, 2000}
LedgerEpochLengths == {0, 1}
LedgerRebaseLags == {0, 2}
LedgerDeviationThresholds == {0}

\* Small-amount runs: the calls' senders and arguments
DustSenders == {"deployer", "alice"}
DustRecipients == {"alice", "bob"}
DustOwners == {"alice"}
DustSpenders == {"bob"}
DustAmounts == {0, 1}
DustSpendAmounts == {1, 2}
DustAllowanceAmounts == {2, U256Max}
DustAllowanceSteps == {1}
DustPrices == {500}

VARIABLES storage, block

vars == <<storage, block>>

\* ------------------------------------------------------------------
\*  Storage fields
\* ------------------------------------------------------------------
totalSupply == storage.totalSupply
gonsPerFragment == storage.gonsPerFragment
gonBalances == storage.gonBalances
allowances == storage.allowances
targetPrice == storage.targetPrice
oraclePrice == storage.oraclePrice
lastRebaseBlock == storage.lastRebaseBlock
epochLength == storage.epochLength
epoch == storage.epoch
rebaseLag == storage.rebaseLag
deviationThreshold == storage.deviationThreshold
maxExpansionRate == storage.maxExpansionRate
maxContractionRate == storage.maxContractionRate
lastOracleBlock == storage.lastOracleBlock

\* ------------------------------------------------------------------
\*  SafeMath: checked u256 arithmetic.  A result of Reverted stands for
\*  the revert the library raises.
\* ------------------------------------------------------------------
Reverted == 0 - 1

SafeAdd(a, b) == IF a > U256Max - b THEN Reverted ELSE a + b

SafeSub(a, b) == IF a < b THEN Reverted ELSE a - b

SafeMul(a, b) == IF a # 0 /\ b > U256Max \div a THEN Reverted ELSE a * b

SafeDiv(a, b) == IF b = 0 THEN Reverted ELSE a \div b

\* ------------------------------------------------------------------
\*  Call outcomes.  A handler returns the status, the returned value and
\*  the storage as written so far; the runtime keeps the writes only of a
\*  call that did not revert.
\* ------------------------------------------------------------------
Ok(s, ret) == [status |-> "ok", ret |-> ret, store |-> s]

Throw(s, msg) == [status |-> msg, ret |-> 0, store |-> s]

Commit(s, out) == IF out.status = "ok" THEN out.store ELSE s

onlyDeployer(caller) == caller = Deployer

\* ------------------------------------------------------------------
\*  Lifecycle
\* ------------------------------------------------------------------
onDeployment(sender, blockNumber) ==
    [totalSupply |-> INITIAL_SUPPLY,
     gonsPerFragment |-> SafeDiv(TOTAL_GONS, INITIAL_SUPPLY),
     gonBalances |-> [a \in Accounts |-> IF a = sender THEN TOTAL_GONS ELSE 0],
     allowances |-> [o \in Accounts |-> [sp \in Accounts |-> 0]],
     targetPrice |-> PRECISION,
     oraclePrice |-> PRECISION,
     epochLength |-> GENESIS_EPOCH_LENGTH,
     rebaseLag |-> GENESIS_REBASE_LAG,
     deviationThreshold |-> GENESIS_DEVIATION_THRESHOLD,
     maxExpansionRate |-> GENESIS_MAX_EXPANSION_RATE,
     maxContractionRate |-> GENESIS_MAX_CONTRACTION_RATE,
     lastRebaseBlock |-> blockNumber,
     epoch |-> 0,
     lastOracleBlock |-> 0]

\* ------------------------------------------------------------------
\*  Internal: token mechanics
\* ------------------------------------------------------------------
\* A faulty _fragmentBalance that rounds the quotient up.
_fragmentBalance_roundUp(s, owner) ==
    IF s.gonBalances[owner] = 0 THEN 0
    ELSE SafeDiv(s.gonBalances[owner] + s.gonsPerFragment - 1, s.gonsPerFragment)

_fragmentBalance(s, owner) ==
    IF s.gonBalances[owner] = 0 THEN 0
    ELSE SafeDiv(s.gonBalances[owner], s.gonsPerFragment)

\* A faulty _transferFragments that rebuilds the recipient's gons from its
\* fragment balance.
_transferFragments_roundCredit(s, from, to, fragmentAmount) ==
    IF fragmentAmount = 0 THEN Throw(s, "Zero transfer")
    ELSE
      LET gonValue == SafeMul(fragmentAmount, s.gonsPerFragment)
          fromGons == s.gonBalances[from]
      IN
      IF gonValue = Reverted THEN Throw(s, "SafeMath: multiplication overflow")
      ELSE IF fromGons < gonValue THEN Throw(s, "Insufficient balance")
      ELSE
        LET s1 == [s EXCEPT !.gonBalances[from] = SafeSub(fromGons, gonValue)]
            toGons == SafeMul(SafeAdd(_fragmentBalance(s1, to), fragmentAmount),
                              s.gonsPerFragment)
        IN
        IF toGons = Reverted THEN Throw(s1, "SafeMath: multiplication overflow")
        ELSE Ok([s1 EXCEPT !.gonBalances[to] = toGons], 0)

\* A faulty _transferFragments that credits the recipient in fragments
\* instead of gons.
_transferFragments_creditFragments(s, from, to, fragmentAmount) ==
    IF fragmentAmount = 0 THEN Throw(s, "Zero transfer")
    ELSE
      LET gonValue == SafeMul(fragmentAmount, s.gonsPerFragment)
          fromGons == s.gonBalances[from]
      IN
      IF gonValue = Reverted THEN Throw(s, "SafeMath: multiplication overflow")
      ELSE IF fromGons < gonValue THEN Throw(s, "Insufficient balance")
      ELSE
        LET s1 == [s EXCEPT !.gonBalances[from] = SafeSub(fromGons, gonValue)]
            toGons == SafeAdd(s1.gonBalances[to], fragmentAmount)
        IN
        IF toGons = Reverted THEN Throw(s1, "SafeMath: addition overflow")
        ELSE Ok([s1 EXCEPT !.gonBalances[to] = toGons], 0)

\* A faulty _transferFragments that reads the recipient's gons before
\* writing the sender's.
_transferFragments_staleRead(s, from, to, fragmentAmount) ==
    IF fragmentAmount = 0 THEN Throw(s, "Zero transfer")
    ELSE
      LET gonValue == SafeMul(fragmentAmount, s.gonsPerFragment)
          fromGons == s.gonBalances[from]
      IN
      IF gonValue = Reverted THEN Throw(s, "SafeMath: multiplication overflow")
      ELSE IF fromGons < gonValue THEN Throw(s, "Insufficient balance")
      ELSE
        LET s1 == [s EXCEPT !.gonBalances[from] = SafeSub(fromGons, gonValue)]
            toGons == SafeAdd(s.gonBalances[to], gonValue)
        IN
        IF toGons = Reverted THEN Throw(s1, "SafeMath: addition overflow")
        ELSE Ok([s1 EXCEPT !.gonBalances[to] = toGons], 0)

_transferFragments(s, from, to, fragmentAmount) ==
    IF fragmentAmount = 0 THEN Throw(s, "Zero transfer")
    ELSE
      LET gonValue == SafeMul(fragmentAmount, s.gonsPerFragment)
          fromGons == s.gonBalances[from]
      IN
      IF gonValue = Reverted THEN Throw(s, "SafeMath: multiplication overflow")
      ELSE IF fromGons < gonValue THEN Throw(s, "Insufficient balance")
      ELSE
        LET s1 == [s EXCEPT !.gonBalances[from] = SafeSub(fromGons, gonValue)]
            toGons == SafeAdd(s1.gonBalances[to], gonValue)
        IN
        IF toGons = Reverted THEN Throw(s1, "SafeMath: addition overflow")
        ELSE Ok([s1 EXCEPT !.gonBalances[to] = toGons], 0)

_getAllowance(s, owner, spender) == s.allowances[owner][spender]

_setAllowance(s, owner, spender, amount) ==
    [s EXCEPT !.allowances[owner][spender] = amount]

\* A faulty _spendAllowance without the unlimited-allowance case.
_spendAllowance_alwaysDeduct(s, owner, spender, amount) ==
    LET current == _getAllowance(s, owner, spender) IN
    IF current < amount THEN Throw(s, "Allowance exceeded")
    ELSE Ok(_setAllowance(s, owner, spender, SafeSub(current, amount)), 0)

_spendAllowance(s, owner, spender, amount) ==
    LET current == _getAllowance(s, owner, spender) IN
    IF current # U256Max
    THEN IF current < amount THEN Throw(s, "Allowance exceeded")
         ELSE Ok(_setAllowance(s, owner, spender, SafeSub(current, amount)), 0)
    ELSE Ok(s, 0)

\* ------------------------------------------------------------------
\*  OP20-compatible write methods
\* ------------------------------------------------------------------
transfer(s, sender, to, amount) == _transferFragments(s, sender, to, amount)

\* A faulty transferFrom that reports success when the transfer fails after
\* the allowance was spent.
transferFrom_keepSpend(s, sender, from, to, amount) ==
    LET spent == _spendAllowance(s, from, sender, amount) IN
    IF spent.status # "ok" THEN spent
    ELSE LET moved == _transferFragments(spent.store, from, to, amount) IN
         IF moved.status # "ok" THEN Ok(spent.store, 0) ELSE moved

transferFrom(s, sender, from, to, amount) ==
    LET spent == _spendAllowance(s, from, sender, amount) IN
    IF spent.status # "ok" THEN spent
    ELSE _transferFragments(spent.store, from, to, amount)

\* A faulty transferAll that moves the sender's whole fragment balance
\* through the fragment conversion.
transferAll_viaFragments(s, sender, to) ==
    IF s.gonBalances[sender] = 0 THEN Throw(s, "Zero balance")
    ELSE _transferFragments(s, sender, to, _fragmentBalance(s, sender))

\* A faulty transferAll that reads the recipient's balance before zeroing
\* the sender's.
transferAll_readBeforeWrite(s, sender, to) ==
    LET senderGons == s.gonBalances[sender] IN
    IF senderGons = 0 THEN Throw(s, "Zero balance")
    ELSE
      LET toGons == SafeAdd(s.gonBalances[to], senderGons)
          s1 == [s EXCEPT !.gonBalances[sender] = 0]
      IN
      IF toGons = Reverted THEN Throw(s1, "SafeMath: addition overflow")
      ELSE Ok([s1 EXCEPT !.gonBalances[to] = toGons], 0)

transferAll(s, sender, to) ==
    LET senderGons == s.gonBalances[sender] IN
    IF senderGons = 0 THEN Throw(s, "Zero balance")
    ELSE
      LET s1 == [s EXCEPT !.gonBalances[sender] = 0]
          toGons == SafeAdd(s1.gonBalances[to], senderGons)
      IN
      IF toGons = Reverted THEN Throw(s1, "SafeMath: addition overflow")
      ELSE Ok([s1 EXCEPT !.gonBalances[to] = toGons], 0)

approve(s, sender, spender, amount) == Ok(_setAllowance(s, sender, spender, amount), 0)

increaseAllowance(s, sender, spender, addedValue) ==
    LET current == _getAllowance(s, sender, spender)
        sum == SafeAdd(current, addedValue)
    IN
    IF sum = Reverted THEN Throw(s, "SafeMath: addition overflow")
    ELSE Ok(_setAllowance(s, sender, spender, sum), 0)

decreaseAllowance(s, sender, spender, subtractedValue) ==
    LET current == _getAllowance(s, sender, spender) IN
    IF current < subtractedValue THEN Throw(s, "Allowance underflow")
    ELSE Ok(_setAllowance(s, sender, spender, SafeSub(current, subtractedValue)), 0)

\* ------------------------------------------------------------------
\*  Monetary policy: oracle
\* ------------------------------------------------------------------
\* A faulty postPrice that restarts the epoch clock.
postPrice_restartEpoch(s, sender, blockNumber, price) ==
    IF ~onlyDeployer(sender) THEN Throw(s, "Only deployer can call this method")
    ELSE IF price = 0 THEN Throw(s, "Price cannot be zero")
    ELSE Ok([s EXCEPT !.oraclePrice = price, !.lastOracleBlock = blockNumber,
                      !.lastRebaseBlock = blockNumber], 0)

\* A faulty postPrice that validates the price before it checks the caller.
postPrice_validateFirst(s, sender, blockNumber, price) ==
    IF price = 0 THEN Throw(s, "Price cannot be zero")
    ELSE IF ~onlyDeployer(sender) THEN Throw(s, "Only deployer can call this method")
    ELSE Ok([s EXCEPT !.oraclePrice = price, !.lastOracleBlock = blockNumber], 0)

postPrice(s, sender, blockNumber, price) ==
    IF ~onlyDeployer(sender) THEN Throw(s, "Only deployer can call this method")
    ELSE IF price = 0 THEN Throw(s, "Price cannot be zero")
    ELSE Ok([s EXCEPT !.oraclePrice = price, !.lastOracleBlock = blockNumber], 0)

\* ------------------------------------------------------------------
\*  Internal: rebase math
\* ------------------------------------------------------------------
_computeSupplyDelta(s, deviation, target) ==
    LET numerator == SafeMul(s.totalSupply, deviation) IN
    IF numerator = Reverted THEN Reverted
    ELSE LET q == SafeDiv(numerator, target) IN
         IF q = Reverted THEN Reverted ELSE SafeDiv(q, s.rebaseLag)

_capDelta(s, delta, maxRate) ==
    LET product == SafeMul(s.totalSupply, maxRate) IN
    IF product = Reverted THEN Reverted
    ELSE LET maxDelta == SafeDiv(product, PRECISION) IN
         IF delta > maxDelta THEN maxDelta ELSE delta

\* thresholdAmt of rebase(): targetPrice * deviationThreshold / PRECISION
thresholdAmt(s) ==
    LET product == SafeMul(s.targetPrice, s.deviationThreshold) IN
    IF product = Reverted THEN Reverted ELSE SafeDiv(product, PRECISION)

\* A faulty deviation check that treats a deviation equal to the threshold
\* as outside the dead zone.
branchDelta_inclusive(s, deviation, maxRate) ==
    LET thr == thresholdAmt(s) IN
    IF thr = Reverted THEN Reverted
    ELSE IF deviation >= thr
    THEN LET raw == _computeSupplyDelta(s, deviation, s.targetPrice) IN
         IF raw = Reverted THEN Reverted ELSE _capDelta(s, raw, maxRate)
    ELSE 0

\* One branch of the deviation check of rebase(): the capped delta for a
\* deviation in one direction, 0 inside the dead zone, Reverted when the
\* arithmetic reverts.
branchDelta(s, deviation, maxRate) ==
    LET thr == thresholdAmt(s) IN
    IF thr = Reverted THEN Reverted
    ELSE IF deviation > thr
    THEN LET raw == _computeSupplyDelta(s, deviation, s.targetPrice) IN
         IF raw = Reverted THEN Reverted ELSE _capDelta(s, raw, maxRate)
    ELSE 0

\* A faulty deviation check whose contraction branch leaves isExpansion set.
supplyDeltaOf_keepExpansion(s) ==
    IF s.oraclePrice > s.targetPrice
    THEN [delta |-> branchDelta(s, SafeSub(s.oraclePrice, s.targetPrice), s.maxExpansionRate),
          isExpansion |-> TRUE]
    ELSE IF s.oraclePrice < s.targetPrice
    THEN [delta |-> branchDelta(s, SafeSub(s.targetPrice, s.oraclePrice), s.maxContractionRate),
          isExpansion |-> TRUE]
    ELSE [delta |-> 0, isExpansion |-> TRUE]

\* The deviation check of rebase(): supplyDelta and isExpansion.
supplyDeltaOf(s) ==
    IF s.oraclePrice > s.targetPrice
    THEN [delta |-> branchDelta(s, SafeSub(s.oraclePrice, s.targetPrice), s.maxExpansionRate),
          isExpansion |-> TRUE]
    ELSE IF s.oraclePrice < s.targetPrice
    THEN LET d == branchDelta(s, SafeSub(s.targetPrice, s.oraclePrice), s.maxContractionRate) IN
         [delta |-> d, isExpansion |-> (d = 0)]
    ELSE [delta |-> 0, isExpansion |-> TRUE]

\* The supply change of rebase(): newSupply, Reverted when the arithmetic reverts.
applyDelta(s, supplyDelta, isExpansion) ==
    IF supplyDelta # 0
    THEN IF isExpansion
         THEN LET sum == SafeAdd(s.totalSupply, supplyDelta) IN
              IF sum = Reverted THEN Reverted
              ELSE IF sum > MAX_SUPPLY THEN MAX_SUPPLY ELSE sum
         ELSE LET room == SafeSub(s.totalSupply, MIN_SUPPLY) IN
              IF room = Reverted THEN Reverted
              ELSE IF supplyDelta > room THEN MIN_SUPPLY
              ELSE SafeSub(s.totalSupply, supplyDelta)
    ELSE s.totalSupply

\* Faulty write steps of rebase(): one that keeps the old gonsPerFragment,
\* one that credits the supply change to the deployer's gon balance, one that
\* skips the epoch bookkeeping when the supply is unchanged.
writeRebase_staleGonsPerFragment(s, supplyDelta, newSupply, currentBlock) ==
    LET s1 == IF supplyDelta # 0 THEN [s EXCEPT !.totalSupply = newSupply] ELSE s
    IN [s1 EXCEPT !.epoch = SafeAdd(s.epoch, 1), !.lastRebaseBlock = currentBlock]

writeRebase_creditDeployer(s, supplyDelta, newSupply, currentBlock) ==
    LET s1 == IF supplyDelta # 0
              THEN [s EXCEPT !.totalSupply = newSupply,
                             !.gonsPerFragment = SafeDiv(TOTAL_GONS, newSupply),
                             !.gonBalances[Deployer] = @ + supplyDelta]
              ELSE s
    IN [s1 EXCEPT !.epoch = SafeAdd(s.epoch, 1), !.lastRebaseBlock = currentBlock]

writeRebase_bookkeepOnChange(s, supplyDelta, newSupply, currentBlock) ==
    IF supplyDelta # 0
    THEN [s EXCEPT !.totalSupply = newSupply,
                   !.gonsPerFragment = SafeDiv(TOTAL_GONS, newSupply),
                   !.epoch = SafeAdd(s.epoch, 1),
                   !.lastRebaseBlock = currentBlock]
    ELSE s

\* The writes of rebase() once newSupply is known.
writeRebase(s, supplyDelta, newSupply, currentBlock) ==
    LET s1 == IF supplyDelta # 0
              THEN [s EXCEPT !.totalSupply = newSupply,
                             !.gonsPerFragment = SafeDiv(TOTAL_GONS, newSupply)]
              ELSE s
    IN [s1 EXCEPT !.epoch = SafeAdd(s.epoch, 1), !.lastRebaseBlock = currentBlock]

\* ------------------------------------------------------------------
\*  Monetary policy: rebase
\* ------------------------------------------------------------------
\* A faulty rebase whose epoch gate opens one block early.
rebase_gateOffByOne(s, sender, currentBlock) ==
    LET gate == SafeAdd(s.lastRebaseBlock, s.epochLength) IN
    IF gate = Reverted THEN Throw(s, "SafeMath: addition overflow")
    ELSE IF currentBlock + 1 < gate THEN Throw(s, "Epoch not elapsed")
    ELSE IF s.oraclePrice = 0 THEN Throw(s, "No oracle price")
    ELSE
      LET d == supplyDeltaOf(s) IN
      IF d.delta = Reverted THEN Throw(s, "SafeMath: arithmetic revert")
      ELSE
        LET newSupply == applyDelta(s, d.delta, d.isExpansion) IN
        IF newSupply = Reverted THEN Throw(s, "SafeMath: arithmetic revert")
        ELSE Ok(writeRebase(s, d.delta, newSupply, currentBlock), newSupply)

rebase(s, sender, currentBlock) ==
    LET gate == SafeAdd(s.lastRebaseBlock, s.epochLength) IN
    IF gate = Reverted THEN Throw(s, "SafeMath: addition overflow")
    ELSE IF currentBlock < gate THEN Throw(s, "Epoch not elapsed")
    ELSE IF s.oraclePrice = 0 THEN Throw(s, "No oracle price")
    ELSE
      LET d == supplyDeltaOf(s) IN
      IF d.delta = Reverted THEN Throw(s, "SafeMath: arithmetic revert")
      ELSE
        LET newSupply == applyDelta(s, d.delta, d.isExpansion) IN
        IF newSupply = Reverted THEN Throw(s, "SafeMath: arithmetic revert")
        ELSE Ok(writeRebase(s, d.delta, newSupply, currentBlock), newSupply)

\* ------------------------------------------------------------------
\*  Monetary policy: view helpers
\* ------------------------------------------------------------------
nextRebaseBlock(s) == SafeAdd(s.lastRebaseBlock, s.epochLength)

\* A faulty canRebase that compares strictly.
canRebase_strict(s, sender, currentBlock) ==
    LET threshold == SafeAdd(s.lastRebaseBlock, s.epochLength) IN
    IF threshold = Reverted THEN Throw(s, "SafeMath: addition overflow")
    ELSE Ok(s, currentBlock > threshold)

canRebase(s, sender, currentBlock) ==
    LET threshold == SafeAdd(s.lastRebaseBlock, s.epochLength) IN
    IF threshold = Reverted THEN Throw(s, "SafeMath: addition overflow")
    ELSE Ok(s, currentBlock >= threshold)

balanceOf(s, owner) == _fragmentBalance(s, owner)

scaledBalanceOf(s, owner) == s.gonBalances[owner]

scaledTotalSupply == TOTAL_GONS

\* ------------------------------------------------------------------
\*  Admin (deployer-only)
\* ------------------------------------------------------------------
\* A faulty setTargetPrice without the zero check.
setTargetPrice_noZeroCheck(s, sender, newTarget) ==
    IF ~onlyDeployer(sender) THEN Throw(s, "Only deployer can call this method")
    ELSE Ok([s EXCEPT !.targetPrice = newTarget], 0)

setTargetPrice(s, sender, newTarget) ==
    IF ~onlyDeployer(sender) THEN Throw(s, "Only deployer can call this method")
    ELSE IF newTarget = 0 THEN Throw(s, "Zero target")
    ELSE Ok([s EXCEPT !.targetPrice = newTarget], 0)

\* A faulty setEpochLength without the zero check.
setEpochLength_noZeroCheck(s, sender, newLength) ==
    IF ~onlyDeployer(sender) THEN Throw(s, "Only deployer can call this method")
    ELSE Ok([s EXCEPT !.epochLength = newLength], 0)

setEpochLength(s, sender, newLength) ==
    IF ~onlyDeployer(sender) THEN Throw(s, "Only deployer can call this method")
    ELSE IF newLength = 0 THEN Throw(s, "Zero epoch")
    ELSE Ok([s EXCEPT !.epochLength = newLength], 0)

setRebaseLag(s, sender, newLag) ==
    IF ~onlyDeployer(sender) THEN Throw(s, "Only deployer can call this method")
    ELSE IF newLag = 0 THEN Throw(s, "Zero lag")
    ELSE Ok([s EXCEPT !.rebaseLag = newLag], 0)

setDeviationThreshold(s, sender, newThreshold) ==
    IF ~onlyDeployer(sender) THEN Throw(s, "Only deployer can call this method")
    ELSE Ok([s EXCEPT !.deviationThreshold = newThreshold], 0)

enableDemoMode(s, sender) ==
    IF ~onlyDeployer(sender) THEN Throw(s, "Only deployer can call this method")
    ELSE Ok([s EXCEPT !.epochLength = 1, !.rebaseLag = 2], 0)

\* ------------------------------------------------------------------
\*  The state machine: one step per call, serial and atomic.  A call that
\*  reverts leaves the storage as it was.
\* ------------------------------------------------------------------
AllowanceInBounds(s) ==
    \A o \in Accounts, sp \in Accounts :
        \/ s.allowances[o][sp] <= MaxAllowance
        \/ s.allowances[o][sp] >= U256Max - MaxAllowance

Call(out) ==
    /\ AllowanceInBounds(out.store)
    /\ storage' = Commit(storage, out)
    /\ UNCHANGED block

Init ==
    /\ block = 0
    /\ storage = onDeployment(Deployer, 0)

AdvanceBlock(maxBlock) ==
    /\ block < maxBlock
    /\ block' = block + 1
    /\ UNCHANGED storage

Transfer(amounts) ==
    \E c \in Accounts, to \in Recipients, amount \in amounts :
        Call(transfer(storage, c, to, amount))

TransferFrom(amounts) ==
    \E c \in Spenders, from \in Owners, to \in Recipients, amount \in amounts :
        Call(transferFrom(storage, c, from, to, amount))

TransferAll ==
    \E c \in Accounts, to \in Recipients :
        Call(transferAll(storage, c, to))

Approve(amounts) ==
    \E c \in Owners, sp \in Spenders, amount \in amounts :
        Call(approve(storage, c, sp, amount))

IncreaseAllowance(amounts) ==
    \E c \in Owners, sp \in Spenders, amount \in amounts :
        Call(increaseAllowance(storage, c, sp, amount))

DecreaseAllowance(amounts) ==
    \E c \in Owners, sp \in Spenders, amount \in amounts :
        Call(decreaseAllowance(storage, c, sp, amount))

PostPrice(prices) ==
    \E c \in Accounts, price \in prices :
        Call(postPrice(storage, c, block, price))

Rebase ==
    \E c \in Accounts : Call(rebase(storage, c, block))

SetTargetPrice(values) ==
    \E c \in Accounts, v \in values :
        Call(setTargetPrice(storage, c, v))

SetEpochLength(values) ==
    \E c \in Accounts, v \in values :
        Call(setEpochLength(storage, c, v))

SetRebaseLag(values) ==
    \E c \in Accounts, v \in values :
        Call(setRebaseLag(storage, c, v))

SetDeviationThreshold(values) ==
    \E c \in Accounts, v \in values :
        Call(setDeviationThreshold(storage, c, v))

EnableDemoMode ==
    \E c \in Accounts : Call(enableDemoMode(storage, c))

\* Every operation, with the small argument sets
Next ==
    \/ AdvanceBlock(MaxBlockLedger)
    \/ Transfer(TransferAmounts)
    \/ TransferFrom(TransferAmounts)
    \/ TransferAll
    \/ Approve(AllowanceAmounts)
    \/ IncreaseAllowance(AllowanceAmounts)
    \/ DecreaseAllowance(AllowanceAmounts)
    \/ PostPrice(LedgerPrices)
    \/ Rebase
    \/ SetTargetPrice(LedgerTargetPrices)
    \/ SetEpochLength(LedgerEpochLengths)
    \/ SetRebaseLag(LedgerRebaseLags)
    \/ SetDeviationThreshold(LedgerDeviationThresholds)
    \/ EnableDemoMode

Spec == Init /\ [][Next]_vars

\* The operations that read or write the policy, oracle, supply and epoch
\* state, with the large argument sets
NextPolicy ==
    \/ AdvanceBlock(MaxBlock)
    \/ PostPrice(Prices)
    \/ Rebase
    \/ SetTargetPrice(TargetPrices)
    \/ SetEpochLength(EpochLengths)
    \/ SetRebaseLag(RebaseLags)
    \/ SetDeviationThreshold(DeviationThresholds)
    \/ EnableDemoMode

SpecPolicy == Init /\ [][NextPolicy]_vars

\* The token operations with single fragments and small allowances, around
\* a contraction rebase
DustInBounds(s) ==
    /\ \A a \in Accounts \ {Deployer} :
         s.gonBalances[a] <= MaxDustFragments * (TOTAL_GONS \div MIN_SUPPLY)
    /\ \A o \in Accounts, sp \in Accounts :
         \/ s.allowances[o][sp] <= MaxDustAllowance
         \/ s.allowances[o][sp] >= U256Max - MaxDustAllowance

DustCall(out) ==
    /\ DustInBounds(Commit(storage, out))
    /\ Call(out)

DustTransfer ==
    \E c \in DustSenders, to \in DustRecipients, amount \in DustAmounts :
        DustCall(transfer(storage, c, to, amount))

DustTransferFrom ==
    \E c \in DustSpenders, from \in DustOwners, to \in DustRecipients,
       amount \in DustSpendAmounts :
        DustCall(transferFrom(storage, c, from, to, amount))

DustTransferAll ==
    \E c \in DustRecipients, to \in Accounts :
        DustCall(transferAll(storage, c, to))

DustApprove ==
    \E c \in DustOwners, sp \in DustSpenders, amount \in DustAllowanceAmounts :
        DustCall(approve(storage, c, sp, amount))

DustIncreaseAllowance ==
    \E c \in DustOwners, sp \in DustSpenders, amount \in DustAllowanceSteps :
        DustCall(increaseAllowance(storage, c, sp, amount))

DustDecreaseAllowance ==
    \E c \in DustOwners, sp \in DustSpenders, amount \in DustAllowanceSteps :
        DustCall(decreaseAllowance(storage, c, sp, amount))

NextDust ==
    \/ AdvanceBlock(MaxBlockDust)
    \/ DustTransfer
    \/ DustTransferFrom
    \/ DustTransferAll
    \/ DustApprove
    \/ DustIncreaseAllowance
    \/ DustDecreaseAllowance
    \/ PostPrice(DustPrices)
    \/ Rebase
    \/ EnableDemoMode

SpecDust == Init /\ [][NextDust]_vars

\* ------------------------------------------------------------------
\*  Reference arithmetic for the properties below, over the unbounded
\*  integers (written so that no intermediate value leaves TLC's range)
\* ------------------------------------------------------------------
RECURSIVE Sum(_, _)
Sum(f, S) ==
    IF S = {} THEN 0
    ELSE LET a == CHOOSE x \in S : TRUE IN f[a] + Sum(f, S \ {a})

Min(a, b) == IF a < b THEN a ELSE b

Max(a, b) == IF a > b THEN a ELSE b

RefDeviation(s) ==
    IF s.oraclePrice > s.targetPrice
    THEN s.oraclePrice - s.targetPrice
    ELSE s.targetPrice - s.oraclePrice

\* floor(targetPrice * deviationThreshold / PRECISION)
RefThresholdAmount(s) ==
    (s.targetPrice \div PRECISION) * s.deviationThreshold
    + ((s.targetPrice % PRECISION) * s.deviationThreshold) \div PRECISION

RefRateCap(s) ==
    IF s.oraclePrice > s.targetPrice THEN s.maxExpansionRate ELSE s.maxContractionRate

RefDelta(s) ==
    Min(((s.totalSupply * RefDeviation(s)) \div s.targetPrice) \div s.rebaseLag,
        (s.totalSupply * RefRateCap(s)) \div PRECISION)

RefNewSupply(s) ==
    IF s.oraclePrice > s.targetPrice
    THEN Min(s.totalSupply + RefDelta(s), MAX_SUPPLY)
    ELSE Max(s.totalSupply - RefDelta(s), MIN_SUPPLY)

\* currentBlock >= lastRebaseBlock + epochLength
Eligible(s, currentBlock) == currentBlock >= s.lastRebaseBlock + s.epochLength

\* The blocks from the current one to Lookahead blocks later
Lookahead == 2
LaterBlocks == block..(block + Lookahead)

\* ------------------------------------------------------------------
\*  C1  Conservation: in every reachable state the gon balances of all
\*  accounts sum to TOTAL_GONS.
\* ------------------------------------------------------------------
C1_Conservation == Sum(gonBalances, Accounts) = TOTAL_GONS

C1_Witness ==
    /\ \A a \in Accounts : gonBalances[a] > 0
    /\ epoch >= 1
    /\ totalSupply # INITIAL_SUPPLY
    /\ allowances["deployer"]["alice"] # 0

\* ------------------------------------------------------------------
\*  C2  Supply bounds: MIN_SUPPLY <= totalSupply <= MAX_SUPPLY in every
\*  reachable state, and an eligible rebase with oraclePrice < targetPrice
\*  and totalSupply = MIN_SUPPLY succeeds and leaves totalSupply = MIN_SUPPLY.
\* ------------------------------------------------------------------
C2_SupplyBounds == MIN_SUPPLY <= totalSupply /\ totalSupply <= MAX_SUPPLY

C2_SupplyBoundsAndFloorSucceeds ==
    /\ C2_SupplyBounds
    /\ \A c \in Accounts :
         (totalSupply = MIN_SUPPLY /\ oraclePrice < targetPrice /\ Eligible(storage, block))
         => /\ rebase(storage, c, block).status = "ok"
            /\ rebase(storage, c, block).store.totalSupply = MIN_SUPPLY

\* What does hold of the floor: a rebase at MIN_SUPPLY with the price below
\* target never reverts in the supply-change step, and when it succeeds it
\* leaves totalSupply = MIN_SUPPLY.
C2_FloorWhenNoOverflow ==
    \A c \in Accounts :
        (totalSupply = MIN_SUPPLY /\ oraclePrice < targetPrice /\ Eligible(storage, block)
         /\ supplyDeltaOf(storage).delta # Reverted)
        => /\ rebase(storage, c, block).status = "ok"
           /\ rebase(storage, c, block).store.totalSupply = MIN_SUPPLY

C2_FloorWitness ==
    /\ totalSupply = MIN_SUPPLY
    /\ oraclePrice < targetPrice
    /\ Eligible(storage, block)
    /\ supplyDeltaOf(storage).delta > 0

\* ------------------------------------------------------------------
\*  C3  gonsPerFragment = floor(TOTAL_GONS / totalSupply) in every reachable
\*  state, and a successful rebase that changes totalSupply rewrites
\*  gonsPerFragment to floor(TOTAL_GONS / newSupply) in the same call.
\* ------------------------------------------------------------------
C3_GonsPerFragment ==
    /\ gonsPerFragment = TOTAL_GONS \div totalSupply
    /\ \A c \in Accounts :
         LET out == rebase(storage, c, block) IN
         (out.status = "ok" /\ out.store.totalSupply # totalSupply)
         => out.store.gonsPerFragment = TOTAL_GONS \div out.store.totalSupply

C3_Witness ==
    /\ epoch >= 1
    /\ totalSupply # INITIAL_SUPPLY
    /\ \E c \in Accounts :
         LET out == rebase(storage, c, block) IN
         out.status = "ok" /\ out.store.totalSupply # totalSupply

\* ------------------------------------------------------------------
\*  C4  Rebase never touches individual balances: a successful rebase leaves
\*  every gonBalances entry and every allowance unchanged, and approve,
\*  increaseAllowance, decreaseAllowance, postPrice and the admin setters
\*  leave gonBalances unchanged; only transfer, transferFrom and transferAll
\*  can change a gon balance.
\* ------------------------------------------------------------------
C4_RebaseKeepsBalances ==
    /\ \A c \in Accounts :
         LET out == rebase(storage, c, block) IN
         out.status = "ok"
         => /\ out.store.gonBalances = gonBalances
            /\ out.store.allowances = allowances
    /\ \A c \in Accounts, sp \in Accounts, amt \in AllowanceAmounts \cup {0} :
         /\ Commit(storage, approve(storage, c, sp, amt)).gonBalances = gonBalances
         /\ Commit(storage, increaseAllowance(storage, c, sp, amt)).gonBalances = gonBalances
         /\ Commit(storage, decreaseAllowance(storage, c, sp, amt)).gonBalances = gonBalances
    /\ \A c \in Accounts :
         /\ \A v \in LedgerPrices :
              Commit(storage, postPrice(storage, c, block, v)).gonBalances = gonBalances
         /\ \A v \in LedgerTargetPrices :
              Commit(storage, setTargetPrice(storage, c, v)).gonBalances = gonBalances
         /\ \A v \in LedgerEpochLengths :
              Commit(storage, setEpochLength(storage, c, v)).gonBalances = gonBalances
         /\ \A v \in LedgerRebaseLags :
              Commit(storage, setRebaseLag(storage, c, v)).gonBalances = gonBalances
         /\ \A v \in LedgerDeviationThresholds :
              Commit(storage, setDeviationThreshold(storage, c, v)).gonBalances = gonBalances
         /\ Commit(storage, enableDemoMode(storage, c)).gonBalances = gonBalances

C4_Witness ==
    /\ gonBalances["alice"] > 0
    /\ gonBalances["deployer"] > 0
    /\ allowances["deployer"]["alice"] # 0
    /\ \E c \in Accounts :
         LET out == rebase(storage, c, block) IN
         out.status = "ok" /\ out.store.totalSupply # totalSupply

\* ------------------------------------------------------------------
\*  C5  Every successful rebase, whether or not the supply changes,
\*  increments epoch by exactly 1 and sets lastRebaseBlock to the current
\*  block.
\* ------------------------------------------------------------------
C5_EpochAdvances ==
    \A c \in Accounts :
        LET out == rebase(storage, c, block) IN
        out.status = "ok"
        => /\ out.store.epoch = epoch + 1
           /\ out.store.lastRebaseBlock = block

C5_Witness ==
    /\ epoch >= 1
    /\ lastRebaseBlock < block
    /\ \E c \in Accounts :
         LET out == rebase(storage, c, block) IN
         out.status = "ok" /\ out.store.totalSupply = totalSupply

\* ------------------------------------------------------------------
\*  C6  One rebase per window: a rebase at any block below
\*  lastRebaseBlock + epochLength fails with 'Epoch not elapsed' and changes
\*  no state.
\* ------------------------------------------------------------------
C6_OneRebasePerWindow ==
    \A c \in Accounts, b \in LaterBlocks :
        (/\ lastRebaseBlock + epochLength <= U256Max
         /\ b < lastRebaseBlock + epochLength)
        => /\ rebase(storage, c, b).status = "Epoch not elapsed"
           /\ Commit(storage, rebase(storage, c, b)) = storage

C6_Witness ==
    /\ epoch >= 1
    /\ epochLength = 2
    /\ lastRebaseBlock < block
    /\ block < lastRebaseBlock + epochLength

\* ------------------------------------------------------------------
\*  C7  One rebase per block, whatever the admin does in between:
\*  epochLength >= 1 in every reachable state, no rebase succeeds in the
\*  block of the last successful rebase, and canRebase is false right after
\*  a successful rebase in the same block.
\* ------------------------------------------------------------------
C7_OneRebasePerBlock ==
    /\ epochLength >= 1
    /\ lastRebaseBlock = block
       => \A c \in Accounts :
            /\ rebase(storage, c, block).status # "ok"
            /\ ~(canRebase(storage, c, block).status = "ok"
                 /\ canRebase(storage, c, block).ret = TRUE)
    /\ \A c \in Accounts :
         LET out == rebase(storage, c, block) IN
         out.status = "ok"
         => /\ canRebase(out.store, c, block).status = "ok"
            /\ canRebase(out.store, c, block).ret = FALSE

C7_Witness ==
    /\ epoch >= 2
    /\ lastRebaseBlock = block
    /\ epochLength = 1

\* ------------------------------------------------------------------
\*  C8  Eligibility predicate: canRebase returns true iff
\*  currentBlock >= lastRebaseBlock + epochLength, rebase passes its epoch
\*  gate iff canRebase returns true, and neither depends on the caller.
\* ------------------------------------------------------------------
C8_Eligibility ==
    \A c \in Accounts :
        LET can == canRebase(storage, c, block)
            out == rebase(storage, c, block)
            canTrue == can.status = "ok" /\ can.ret = TRUE
        IN
        /\ canTrue <=> Eligible(storage, block)
        /\ (out.status \notin {"Epoch not elapsed", "SafeMath: addition overflow"}) <=> canTrue
        /\ \A c2 \in Accounts :
             /\ rebase(storage, c2, block) = out
             /\ canRebase(storage, c2, block) = can

C8_Witness ==
    /\ epoch >= 1
    /\ block = lastRebaseBlock + epochLength
    /\ rebase(storage, "bob", block).status = "ok"
    /\ canRebase(storage, "bob", block).ret = TRUE

\* ------------------------------------------------------------------
\*  C9  Dead-zone no-op: a successful rebase with
\*  |oraclePrice - targetPrice| <= floor(targetPrice * deviationThreshold /
\*  PRECISION) leaves totalSupply and gonsPerFragment unchanged, returns the
\*  unchanged totalSupply, and still increments epoch and sets
\*  lastRebaseBlock.
\* ------------------------------------------------------------------
C9_DeadZoneNoOp ==
    \A c \in Accounts :
        LET out == rebase(storage, c, block) IN
        (out.status = "ok" /\ RefDeviation(storage) <= RefThresholdAmount(storage))
        => /\ out.store.totalSupply = totalSupply
           /\ out.store.gonsPerFragment = gonsPerFragment
           /\ out.ret = totalSupply
           /\ out.store.epoch = epoch + 1
           /\ out.store.lastRebaseBlock = block

C9_Witness ==
    /\ oraclePrice # targetPrice
    /\ RefDeviation(storage) = RefThresholdAmount(storage)
    /\ \E c \in Accounts : rebase(storage, c, block).status = "ok"

\* ------------------------------------------------------------------
\*  C10  Rebase result matches the reference formula: when the deviation
\*  exceeds the threshold, an eligible rebase returns and stores
\*  min(S + delta, MAX_SUPPLY) on expansion and max(S - delta, MIN_SUPPLY)
\*  on contraction, with delta = min(floor(floor(S * d / targetPrice) /
\*  rebaseLag), floor(S * rateCap / PRECISION)).
\* ------------------------------------------------------------------
C10_RebaseMatchesReference ==
    \A c \in Accounts :
        LET out == rebase(storage, c, block) IN
        (Eligible(storage, block) /\ RefDeviation(storage) > RefThresholdAmount(storage))
        => /\ out.status = "ok"
           /\ out.ret = RefNewSupply(storage)
           /\ out.store.totalSupply = RefNewSupply(storage)

\* What does hold: the result of every rebase that does not revert is the
\* reference value.
C10_ReferenceWhenSucceeds ==
    \A c \in Accounts :
        LET out == rebase(storage, c, block) IN
        (out.status = "ok" /\ RefDeviation(storage) > RefThresholdAmount(storage))
        => /\ out.ret = RefNewSupply(storage)
           /\ out.store.totalSupply = RefNewSupply(storage)

\* ------------------------------------------------------------------
\*  The calls a state admits, over every caller and the arguments of all
\*  three runs (the views aside)
\* ------------------------------------------------------------------
CallAmounts ==
    TransferAmounts \cup AllowanceAmounts \cup DustAmounts \cup DustSpendAmounts

PolicyValues ==
    Prices \cup TargetPrices \cup EpochLengths \cup RebaseLags \cup DeviationThresholds

TransferCalls(s) ==
    {transfer(s, c, to, a) : c \in Accounts, to \in Accounts, a \in CallAmounts}
    \cup {transferFrom(s, c, from, to, a) :
            c \in Accounts, from \in Accounts, to \in Accounts, a \in CallAmounts}
    \cup {transferAll(s, c, to) : c \in Accounts, to \in Accounts}

AllowanceCalls(s) ==
    {approve(s, c, sp, a) : c \in Accounts, sp \in Accounts, a \in CallAmounts}
    \cup {increaseAllowance(s, c, sp, a) : c \in Accounts, sp \in Accounts, a \in CallAmounts}
    \cup {decreaseAllowance(s, c, sp, a) : c \in Accounts, sp \in Accounts, a \in CallAmounts}

AdminCalls(s, b, callers) ==
    {postPrice(s, c, b, v) : c \in callers, v \in PolicyValues}
    \cup {setTargetPrice(s, c, v) : c \in callers, v \in PolicyValues}
    \cup {setEpochLength(s, c, v) : c \in callers, v \in PolicyValues}
    \cup {setRebaseLag(s, c, v) : c \in callers, v \in PolicyValues}
    \cup {setDeviationThreshold(s, c, v) : c \in callers, v \in PolicyValues}
    \cup {enableDemoMode(s, c) : c \in callers}

RebaseCalls(s, b) == {rebase(s, c, b) : c \in Accounts}

AuthError == "Only deployer can call this method"

AdminFields(s) ==
    <<s.oraclePrice, s.lastOracleBlock, s.targetPrice, s.epochLength,
      s.rebaseLag, s.deviationThreshold>>

C12_Authorization ==
    /\ \A out \in AdminCalls(storage, block, Accounts \ {Deployer}) :
         /\ out.status = AuthError
         /\ Commit(storage, out) = storage
    /\ \A out \in AdminCalls(storage, block, {Deployer}) : out.status # AuthError
    /\ \A out \in TransferCalls(storage) \cup AllowanceCalls(storage)
                  \cup RebaseCalls(storage, block) :
         /\ out.status # AuthError
         /\ AdminFields(Commit(storage, out)) = AdminFields(storage)

C12_Witness ==
    /\ lastOracleBlock > 0
    /\ oraclePrice # PRECISION
    /\ targetPrice # PRECISION
    /\ deviationThreshold # GENESIS_DEVIATION_THRESHOLD
    /\ epochLength = 2
    /\ rebaseLag = 1
    /\ postPrice(storage, "alice", block, 0).status = AuthError
    /\ setTargetPrice(storage, "bob", 0).status = AuthError

\* ------------------------------------------------------------------
\*  C13  Each of setTargetPrice, setEpochLength, setRebaseLag and
\*  setDeviationThreshold called by the deployer with 0 fails and leaves its
\*  parameter unchanged, and targetPrice, epochLength, rebaseLag and
\*  deviationThreshold are nonzero in every reachable state.
\* ------------------------------------------------------------------
C13_SettersRejectZero ==
    /\ setTargetPrice(storage, Deployer, 0).status # "ok"
    /\ setEpochLength(storage, Deployer, 0).status # "ok"
    /\ setRebaseLag(storage, Deployer, 0).status # "ok"
    /\ setDeviationThreshold(storage, Deployer, 0).status # "ok"
    /\ targetPrice # 0
    /\ epochLength # 0
    /\ rebaseLag # 0
    /\ deviationThreshold # 0

\* What does hold: the three setters with a zero check reject 0, and their
\* parameters are nonzero in every reachable state.
C13_CheckedSettersRejectZero ==
    /\ setTargetPrice(storage, Deployer, 0).status = "Zero target"
    /\ setEpochLength(storage, Deployer, 0).status = "Zero epoch"
    /\ setRebaseLag(storage, Deployer, 0).status = "Zero lag"
    /\ targetPrice # 0
    /\ epochLength # 0
    /\ rebaseLag # 0

C15_TransferAll ==
    \A c \in Accounts, to \in Accounts :
        LET out == transferAll(storage, c, to) IN
        /\ gonBalances[c] = 0 => out.status = "Zero balance"
        /\ gonBalances[c] # 0
           => /\ out.status = "ok"
              /\ out.store =
                   [storage EXCEPT !.gonBalances =
                       [[gonBalances EXCEPT ![c] = 0] EXCEPT ![to] = @ + gonBalances[c]]]
        /\ (0 < gonBalances[c] /\ gonBalances[c] < gonsPerFragment /\ to # c)
           => /\ balanceOf(storage, c) = 0
              /\ out.status = "ok"
              /\ out.store.gonBalances[c] = 0
              /\ out.store.gonBalances[to] = gonBalances[to] + gonBalances[c]

C15_Witness ==
    /\ epoch >= 1
    /\ 0 < gonBalances["alice"]
    /\ gonBalances["alice"] < gonsPerFragment
    /\ balanceOf(storage, "alice") = 0
    /\ gonBalances["bob"] > 0
    /\ transferAll(storage, "alice", "bob").status = "ok"

\* ------------------------------------------------------------------
\*  C16  Allowance spend in transferFrom: an allowance equal to the
\*  sentinel 2^256 - 1 is left unchanged by a successful transferFrom;
\*  otherwise the call fails with 'Allowance exceeded' when the amount is
\*  above the allowance and moves no balance, and a successful call reduces
\*  the allowance by exactly the amount; the balances move as in transfer.
\* ------------------------------------------------------------------
C16_AllowanceSpend ==
    \A c \in Accounts, from \in Accounts, to \in Accounts, a \in CallAmounts :
        LET out == transferFrom(storage, c, from, to, a)
            current == allowances[from][c]
        IN
        /\ (current = U256Max /\ out.status = "ok")
           => out.store.allowances = allowances
        /\ (current # U256Max /\ a > current)
           => /\ out.status = "Allowance exceeded"
              /\ Commit(storage, out) = storage
        /\ (current # U256Max /\ out.status = "ok")
           => out.store.allowances = [allowances EXCEPT ![from][c] = current - a]
        /\ out.status = "ok"
           => /\ transfer(storage, from, to, a).status = "ok"
              /\ out.store.gonBalances = transfer(storage, from, to, a).store.gonBalances

C16_Witness ==
    /\ allowances["alice"]["bob"] = 1
    /\ gonBalances["alice"] >= 2 * gonsPerFragment
    /\ transferFrom(storage, "bob", "alice", "bob", 1).status = "ok"
    /\ transferFrom(storage, "bob", "alice", "bob", 2).status = "Allowance exceeded"

\* The unlimited allowance is in use: a transferFrom succeeds under it.
C16_SentinelReached ==
    /\ allowances["alice"]["bob"] = U256Max
    /\ transferFrom(storage, "bob", "alice", "bob", 1).status = "ok"

\* ------------------------------------------------------------------
\*  C17  An allowance equal to the sentinel maximum is never decremented:
\*  no call other than approve (a transferFrom spend and decreaseAllowance
\*  included) takes allowances[owner][spender] from the sentinel to a
\*  smaller value.
\* ------------------------------------------------------------------
C17_SentinelNeverDecremented ==
    \A o \in Accounts, sp \in Accounts :
        allowances[o][sp] = U256Max
        => /\ \A to \in Accounts, a \in CallAmounts :
                Commit(storage, transferFrom(storage, sp, o, to, a)).allowances[o][sp] = U256Max
           /\ \A a \in CallAmounts :
                /\ Commit(storage, decreaseAllowance(storage, o, sp, a)).allowances[o][sp] = U256Max
                /\ Commit(storage, increaseAllowance(storage, o, sp, a)).allowances[o][sp] = U256Max

\* What does hold: no transferFrom and no increaseAllowance takes an
\* allowance away from the sentinel.
C17_SpendKeepsSentinel ==
    \A o \in Accounts, sp \in Accounts :
        allowances[o][sp] = U256Max
        => /\ \A to \in Accounts, a \in CallAmounts :
                Commit(storage, transferFrom(storage, sp, o, to, a)).allowances[o][sp] = U256Max
           /\ \A a \in CallAmounts :
                Commit(storage, increaseAllowance(storage, o, sp, a)).allowances[o][sp] = U256Max

\* ------------------------------------------------------------------
\*  C18  Round trip: when transfer(from, to, amount) succeeds, the transfer
\*  of the same amount back from to to from, with no rebase in between,
\*  succeeds too and the gon balances (hence balanceOf) of both accounts are
\*  exactly what they were.
\* ------------------------------------------------------------------
C18_RoundTrip ==
    \A from \in Accounts, to \in Accounts, a \in CallAmounts :
        LET there == transfer(storage, from, to, a) IN
        there.status = "ok"
        => LET back == transfer(there.store, to, from, a) IN
           /\ back.status = "ok"
           /\ back.store.gonBalances = gonBalances
           /\ balanceOf(back.store, from) = balanceOf(storage, from)
           /\ balanceOf(back.store, to) = balanceOf(storage, to)

C18_Witness ==
    /\ epoch >= 1
    /\ gonBalances["bob"] % gonsPerFragment # 0
    /\ transfer(storage, "alice", "bob", 1).status = "ok"
    /\ transfer(storage, "alice", "bob", 1).store.gonBalances # gonBalances

\* ------------------------------------------------------------------
\*  C19  oraclePrice and targetPrice are nonzero in every reachable state:
\*  postPrice and setTargetPrice reject 0, so the division by targetPrice
\*  in rebase never has a zero divisor.
\* ------------------------------------------------------------------
C19_PricesNonzero ==
    /\ oraclePrice # 0
    /\ targetPrice # 0
    /\ postPrice(storage, Deployer, block, 0).status = "Price cannot be zero"
    /\ setTargetPrice(storage, Deployer, 0).status = "Zero target"
    /\ \A n \in {0, totalSupply, U256Max} : SafeDiv(n, targetPrice) # Reverted

C19_Witness ==
    /\ epoch >= 1
    /\ oraclePrice # PRECISION
    /\ targetPrice # PRECISION
    /\ lastOracleBlock > 0

\* ------------------------------------------------------------------
\*  C20  totalSupply, gonsPerFragment, epoch and lastRebaseBlock change only
\*  in a successful rebase: every transfer, transferFrom, transferAll,
\*  approve, increaseAllowance, decreaseAllowance, postPrice, setter and
\*  enableDemoMode call, and every failing rebase, leaves all four unchanged.
\* ------------------------------------------------------------------
SupplyFields(s) == <<s.totalSupply, s.gonsPerFragment, s.epoch, s.lastRebaseBlock>>

C20_SupplyFrame ==
    /\ \A out \in TransferCalls(storage) \cup AllowanceCalls(storage)
                  \cup AdminCalls(storage, block, Accounts) :
         SupplyFields(Commit(storage, out)) = SupplyFields(storage)
    /\ \A out \in RebaseCalls(storage, block) :
         out.status # "ok" => SupplyFields(Commit(storage, out)) = SupplyFields(storage)

C20_Witness ==
    /\ epoch >= 1
    /\ lastRebaseBlock < block
    /\ totalSupply # INITIAL_SUPPLY
    /\ gonBalances["alice"] > 0
    /\ postPrice(storage, Deployer, block, 500).status = "ok"
    /\ transfer(storage, Deployer, "bob", 1).status = "ok"

\* ------------------------------------------------------------------
\*  C21  A rebase issued after the epoch has elapsed but before any
\*  successful postPrice fails with the no-oracle-price error.
\*  (No run posts the genesis price PRECISION, so oraclePrice = PRECISION
\*  with lastOracleBlock = 0 is exactly "no price was ever posted".)
\* ------------------------------------------------------------------
NeverPosted(s) == s.oraclePrice = PRECISION /\ s.lastOracleBlock = 0

C21_NoOraclePrice ==
    \A c \in Accounts :
        (NeverPosted(storage) /\ Eligible(storage, block))
        => rebase(storage, c, block).status = "No oracle price"

\* What does hold: no rebase ever fails with the no-oracle-price error.
C21_NoOraclePriceNeverRaised ==
    \A c \in Accounts, b \in LaterBlocks :
        rebase(storage, c, b).status # "No oracle price"

\* ------------------------------------------------------------------
\*  Events.  The client ABI declares four events; the contract's handlers
\*  build their response and return without ever emitting one, so the
\*  events of a call are empty whatever its outcome.
\* ------------------------------------------------------------------
DeclaredEvents == {"Rebase", "PricePosted", "Transferred", "Approved"}

emittedEvents(out) == {}

\* ------------------------------------------------------------------
\*  C22  Every successful state-changing operation emits its event
\*  (rebase: Rebase, postPrice: PricePosted, transfers: Transferred,
\*  approvals: Approved), and a failing call emits nothing.
\* ------------------------------------------------------------------
EmitsOnSuccess(out, event) ==
    /\ event \in DeclaredEvents
    /\ IF out.status = "ok" THEN event \in emittedEvents(out)
                            ELSE emittedEvents(out) = {}

C22_EventsEmitted ==
    /\ \A c \in Accounts : EmitsOnSuccess(rebase(storage, c, block), "Rebase")
    /\ \A c \in Accounts, p \in LedgerPrices :
           EmitsOnSuccess(postPrice(storage, c, block, p), "PricePosted")
    /\ \A c \in Owners, to \in Recipients, a \in TransferAmounts :
           EmitsOnSuccess(transfer(storage, c, to, a), "Transferred")
    /\ \A c \in Owners, sp \in Spenders, a \in AllowanceAmounts :
           EmitsOnSuccess(approve(storage, c, sp, a), "Approved")

\* ------------------------------------------------------------------
\*  C23  Every policy parameter can be set by the admin: for each of
\*  targetPrice, epochLength, rebaseLag, deviationThreshold,
\*  maxExpansionRate and maxContractionRate the deployer has a call that
\*  succeeds and changes it.
\* ------------------------------------------------------------------
PolicyParameters ==
    {"targetPrice", "epochLength", "rebaseLag", "deviationThreshold",
     "maxExpansionRate", "maxContractionRate"}

Settable(field) ==
    \E out \in AdminCalls(storage, block, {Deployer}) :
        /\ out.status = "ok"
        /\ Commit(storage, out)[field] # storage[field]

C23_AllParametersSettable == \A field \in PolicyParameters : Settable(field)

\* What does hold: the four parameters with a setter are settable in every
\* state, and the two rate caps keep their genesis values for ever.
C23_RateCapsFixed ==
    /\ \A field \in PolicyParameters \ {"maxExpansionRate", "maxContractionRate"} :
           Settable(field)
    /\ maxExpansionRate = GENESIS_MAX_EXPANSION_RATE
    /\ maxContractionRate = GENESIS_MAX_CONTRACTION_RATE
    /\ \A out \in AdminCalls(storage, block, Accounts) \cup RebaseCalls(storage, block) :
           /\ Commit(storage, out).maxExpansionRate = maxExpansionRate
           /\ Commit(storage, out).maxContractionRate = maxContractionRate

\* ------------------------------------------------------------------
\*  C24  The product totalSupply * deviation of _computeSupplyDelta never
\*  overflows: in every reachable state where rebase() would compute it
\*  (the deviation exceeds the threshold amount), the product fits.
\* ------------------------------------------------------------------
ComputesDelta(s) ==
    /\ thresholdAmt(s) # Reverted
    /\ RefDeviation(s) > thresholdAmt(s)

C24_ProductFits ==
    ComputesDelta(storage) => SafeMul(totalSupply, RefDeviation(storage)) # Reverted

\* What does hold: when the product overflows, _computeSupplyDelta reverts
\* and an eligible rebase fails without writing.
C24_OverflowReverts ==
    (ComputesDelta(storage) /\ SafeMul(totalSupply, RefDeviation(storage)) = Reverted)
    => /\ _computeSupplyDelta(storage, RefDeviation(storage), targetPrice) = Reverted
       /\ \A c \in Accounts :
              (nextRebaseBlock(storage) # Reverted /\ Eligible(storage, block))
              => /\ rebase(storage, c, block).status = "SafeMath: arithmetic revert"
                 /\ Commit(storage, rebase(storage, c, block)) = storage

\* ------------------------------------------------------------------
\*  C25  A rebase() call has exactly three outcomes: success, 'Epoch not
\*  elapsed' or 'No oracle price'; once the epoch has elapsed and the
\*  oracle price is nonzero it succeeds, with no arithmetic abort in the
\*  gate, the threshold, the delta, the cap, the floor clamp or the epoch
\*  increment.
\* ------------------------------------------------------------------
C25_ThreeOutcomes ==
    \A c \in Accounts, b \in LaterBlocks :
        LET out == rebase(storage, c, b) IN
        /\ out.status \in {"ok", "Epoch not elapsed", "No oracle price"}
        /\ (Eligible(storage, b) /\ oraclePrice # 0) => out.status = "ok"

\* What does hold: the arithmetic aborts come from the gate sum, the
\* threshold product and the delta product only; the cap, the floor clamp
\* and the epoch increment never abort, and with all three fitting an
\* eligible rebase succeeds.
C25_AbortsOnlyFromThreeProducts ==
    \A c \in Accounts, b \in LaterBlocks :
        LET out == rebase(storage, c, b) IN
        /\ out.status \in {"ok", "Epoch not elapsed",
                           "SafeMath: addition overflow", "SafeMath: arithmetic revert"}
        /\ out.status = "SafeMath: addition overflow"
               <=> nextRebaseBlock(storage) = Reverted
        /\ out.status = "SafeMath: arithmetic revert"
               <=> /\ nextRebaseBlock(storage) # Reverted
                   /\ Eligible(storage, b)
                   /\ \/ oraclePrice # targetPrice /\ thresholdAmt(storage) = Reverted
                      \/ /\ ComputesDelta(storage)
                         /\ SafeMul(totalSupply, RefDeviation(storage)) = Reverted
        /\ SafeMul(totalSupply, RefRateCap(storage)) # Reverted
        /\ SafeSub(totalSupply, MIN_SUPPLY) # Reverted
        /\ SafeAdd(epoch, 1) # Reverted

\* ------------------------------------------------------------------
\*  C26  In every reachable state the visible balances balanceOf(addr) of
\*  all accounts sum to at most totalSupply.
\* ------------------------------------------------------------------
VisibleSum(s) == Sum([a \in Accounts |-> balanceOf(s, a)], Accounts)

C26_VisibleSumAtMostSupply == VisibleSum(storage) <= totalSupply

\* What does hold: the visible balances sum to at most the visible value of
\* all gons, floor(TOTAL_GONS / gonsPerFragment), which exceeds totalSupply
\* as soon as TOTAL_GONS mod totalSupply reaches gonsPerFragment.
C26_VisibleSumAtMostGons ==
    /\ VisibleSum(storage) <= TOTAL_GONS \div gonsPerFragment
    /\ TOTAL_GONS \div gonsPerFragment
         = totalSupply + (TOTAL_GONS % totalSupply) \div gonsPerFragment
    /\ (TOTAL_GONS % totalSupply < gonsPerFragment) => VisibleSum(storage) <= totalSupply

\* ------------------------------------------------------------------
\*  C27  The displayed balance is always spendable: for every account a and
\*  every amount with 1 <= amount <= balanceOf(a), transfer(to, amount)
\*  called by a succeeds (no insufficient-balance, no arithmetic failure),
\*  also in the states right after a rebase.
\* ------------------------------------------------------------------
SpendAmounts(s, a) ==
    {1, 2, (balanceOf(s, a) + 1) \div 2, balanceOf(s, a) - 1, balanceOf(s, a)}

C27_BalanceSpendable ==
    \A a \in Accounts, to \in Accounts :
        \A amount \in SpendAmounts(storage, a) :
            (1 <= amount /\ amount <= balanceOf(storage, a))
            => transfer(storage, a, to, amount).status = "ok"

\* A rebase has changed the scalar, alice holds gons that are not a whole
\* number of fragments, and her whole displayed balance transfers.
C27_Witness ==
    /\ epoch >= 1
    /\ gonsPerFragment # TOTAL_GONS \div INITIAL_SUPPLY
    /\ gonBalances["alice"] % gonsPerFragment # 0
    /\ balanceOf(storage, "alice") >= 1
    /\ transfer(storage, "alice", "bob", balanceOf(storage, "alice")).status = "ok"

\* ------------------------------------------------------------------
\*  C28  Eligibility is eventually reached and is stable: in every
\*  reachable state, with epochLength left alone, there is a block height
\*  from the current one on at which canRebase() answers true (the later of
\*  the current block and lastRebaseBlock + epochLength), and once
\*  canRebase() answers true it still does at every later block after any
\*  transfer, approval, postPrice or failed rebase.
\* ------------------------------------------------------------------
IsEligible(s, b) ==
    \A c \in Accounts :
        /\ canRebase(s, c, b).status = "ok"
        /\ canRebase(s, c, b).ret = TRUE

\* The calls that leave lastRebaseBlock and epochLength alone
GateKeepingCalls(s, b) ==
    {transfer(s, c, to, a) : c \in Accounts, to \in Accounts, a \in DustSpendAmounts}
    \cup {approve(s, c, sp, a) : c \in Accounts, sp \in Accounts, a \in DustSpendAmounts}
    \cup {postPrice(s, c, b, v) : c \in Accounts, v \in Prices}
    \cup {out \in RebaseCalls(s, b) : out.status # "ok"}

StableOnceEligible ==
    \A b \in LaterBlocks :
        IsEligible(storage, b)
        => \A out \in GateKeepingCalls(storage, b), later \in b..(b + Lookahead) :
               IsEligible(Commit(storage, out), later)

C28_EligibilityReachedAndStable ==
    /\ IsEligible(storage, Max(block, nextRebaseBlock(storage)))
    /\ StableOnceEligible

\* What does hold: eligibility is stable, and it is reached exactly when the
\* gate sum lastRebaseBlock + epochLength fits.
C28_StableAndReachedWhenGateFits ==
    /\ StableOnceEligible
    /\ IsEligible(storage, Max(block, nextRebaseBlock(storage)))
           <=> nextRebaseBlock(storage) # Reverted
    /\ nextRebaseBlock(storage) = Reverted
           => \A b \in LaterBlocks : ~IsEligible(storage, b)

\* ------------------------------------------------------------------
\*  C29  The direction of a rebase follows the price: a successful rebase
\*  with oraclePrice > targetPrice never lowers totalSupply, one with
\*  oraclePrice < targetPrice never raises it, and one with
\*  oraclePrice = targetPrice leaves it unchanged.
\* ------------------------------------------------------------------
C29_DirectionFollowsPrice ==
    \A c \in Accounts, b \in LaterBlocks :
        LET out == rebase(storage, c, b) IN
        out.status = "ok"
        => /\ out.ret = Commit(storage, out).totalSupply
           /\ oraclePrice > targetPrice => out.ret >= totalSupply
           /\ oraclePrice < targetPrice => out.ret <= totalSupply
           /\ oraclePrice = targetPrice => out.ret = totalSupply

\* A rebase below the peg succeeds and shrinks the supply.
C29_Witness ==
    /\ oraclePrice < targetPrice
    /\ rebase(storage, "alice", block).status = "ok"
    /\ rebase(storage, "alice", block).ret < totalSupply

\* ------------------------------------------------------------------
\*  C30  Self-transfers are balance-neutral: a successful transfer to the
\*  sender itself, transferFrom with to = from, or transferAll to the
\*  sender leaves every gon balance, the account's included, as it was.
\* ------------------------------------------------------------------
C30_SelfTransferNeutral ==
    \A a \in Accounts :
        /\ \A amount \in DustSpendAmounts \cup {balanceOf(storage, a)} :
             /\ LET out == transfer(storage, a, a, amount) IN
                out.status = "ok" => Commit(storage, out).gonBalances = gonBalances
             /\ \A sp \in Accounts :
                    LET out == transferFrom(storage, sp, a, a, amount) IN
                    out.status = "ok" => Commit(storage, out).gonBalances = gonBalances
        /\ LET out == transferAll(storage, a, a) IN
           out.status = "ok" => Commit(storage, out).gonBalances = gonBalances

\* alice holds a balance with sub-fragment gons and bob an allowance on it;
\* all three self-transfers succeed.
C30_Witness ==
    /\ gonBalances["alice"] % gonsPerFragment # 0
    /\ transfer(storage, "alice", "alice", 1).status = "ok"
    /\ allowances["alice"]["bob"] = 1
    /\ transferFrom(storage, "bob", "alice", "alice", 1).status = "ok"
    /\ transferAll(storage, "alice", "alice").status = "ok"

====
